---- MODULE Spec2Model ----
(***************************************************************************)
(* Stock ledger and audit reconciliation of the WebsiteDjango repository.  *)
(*                                                                         *)
(* Stock, StockMovement and StockAudit are the models of 1/models7.py      *)
(* (1/modelsGrok.py holds the same complete_audit).  The spreadsheet       *)
(* import of store/views.py writes the quantity of the pair's Stock row.   *)
(*                                                                         *)
(* Database tables (committed state, READ COMMITTED visibility):           *)
(*   stock      Stock rows, one slot per (product_variant, warehouse) pair *)
(*   movements  StockMovement rows in insertion order                      *)
(*   audits     StockAudit rows                                            *)
(* Request handlers run concurrently.  Each loads a StockAudit row into an *)
(* in-memory instance and runs StockAudit.complete_audit on it, statement  *)
(* by statement, inside transaction.atomic: the writes of a transaction    *)
(* are kept in tx and reach the tables when the block is left; a row       *)
(* written by an open transaction is locked until then.                    *)
(*                                                                         *)
(* Spec is the audit reconciliation with the import.  SpecReservation is   *)
(* the movement ledger and the reservation manager on the same tables, and *)
(* SpecPairs the reconciliation of two pairs.  SpecWorker is the worker    *)
(* audit view of store/views.py, SpecImages the main-image handling of     *)
(* store/models.py, SpecSearch (SpecSearchFair with thread scheduling) the *)
(* image downloader of gsearch/goog.py, and SpecCarts the cart merge on    *)
(* login of 1/models7.py.                                                  *)
(***************************************************************************)
EXTENDS Integers, Sequences, FiniteSets, TLC

\* ---------------------------------------------------------------- bounds
MaxQty == 1          \* quantities entered by users range over 0..MaxQty
MaxImports == 1      \* spreadsheet rows imported
MaxOnHand == 3       \* quantity on hand reached through append
MaxAmount == 2       \* amounts of append, reserve, release and consume calls
MaxMoves == 2        \* movements written by append and consume
MaxSaves == 3        \* POST requests to the worker audit view
MaxImages == 3       \* Image rows created
MaxThreads == 2      \* search worker threads alive at once
MaxQueries == 2      \* queries of one search
MaxItems == 2        \* image items returned for a query
MaxCartQty == 1      \* quantity of a cart item before any merge

Pairs == {"p1", "p2"}          \* (product_variant, warehouse) pairs
AuditIds == {1, 2}             \* primary keys of StockAudit rows
Handlers == {1, 2}             \* concurrent request handlers
Qtys == 0 .. MaxQty

NoLock == 0
NoTime == 0                    \* completed_at IS NULL
NoAudit == 0                   \* handler holds no instance

ADJUSTMENT == "adjustment"     \* StockMovement.MovementType.ADJUSTMENT
SALE == "sale"                 \* StockMovement.MovementType.SALE
PURCHASE == "purchase"         \* StockMovement.MovementType.PURCHASE

VARIABLES
    catalog,     \* pairs whose ProductVariant and Warehouse rows exist
    stock,       \* [Pairs -> Stock row]
    movements,   \* Seq of StockMovement rows
    audits,      \* [AuditIds -> StockAudit row]
    clock,       \* timezone.now()
    lock,        \* [Pairs -> holder of the row lock on the Stock row]
    pc,          \* [Handlers -> position inside complete_audit]
    obj,         \* [Handlers -> in-memory StockAudit instance (self)]
    local,       \* [Handlers -> locals of complete_audit]
    tx,          \* [Handlers -> uncommitted writes of the open transaction]
    result,      \* [Handlers -> outcome of the last complete_audit call]
    hist,        \* [Handlers -> bookkeeping about the calls on the instance]
    expected,    \* [Pairs -> last assigned quantity plus deltas committed since]
    interleaved, \* [AuditIds -> the pair's quantity changed while the audit was open]
    imports,     \* spreadsheet rows imported so far
    req,         \* [Handlers -> reserve request in progress]
    last,        \* the operation of the reservation manager committed last
    foreign_keys,\* the database enforces foreign keys
    waudit,      \* WorkerProductAudit row of the product
    wreq,        \* [Handlers -> request to worker_product_audit_view]
    wnow,        \* timezone.now() of the store application
    image_rows,  \* [ImageIds -> Image row]
    product_images, \* [Products -> set of Image ids], Product.images
    is_paused,   \* global is_paused of the image downloader
    is_stopped,  \* global is_stopped of the image downloader
    search_button, \* the Search button is enabled
    pause_button,  \* the Pause button is enabled
    stop_button,   \* the Stop button is enabled
    threads,     \* [Threads -> search_thread]
    carts,       \* [CartIds -> Cart row with its CartItem quantities]
    mreq         \* [Handlers -> login running merge_anonymous_cart_with_user_cart]

\* state of the store application (worker audits)
workerVars == <<foreign_keys, waudit, wreq, wnow>>

\* state of the store application (product images)
imageVars == <<image_rows, product_images>>

\* state of the image downloader
searchVars == <<is_paused, is_stopped, search_button, pause_button, stop_button,
                threads>>

\* state of the shop carts
cartVars == <<carts, mreq>>

appVars == <<workerVars, imageVars, searchVars, cartVars>>

\* what the worker audit view, the image operations and the image
\* downloader leave alone
exceptWorker == <<imageVars, searchVars, cartVars>>
exceptImages == <<workerVars, searchVars, cartVars>>
exceptSearch == <<workerVars, imageVars, cartVars>>
exceptCarts == <<workerVars, imageVars, searchVars>>

\* state of the stock ledger
ledgerVars == <<catalog, stock, movements, audits, clock, lock, pc, obj, local,
                tx, result, hist, expected, interleaved, imports, req, last>>

vars == <<ledgerVars, appVars>>

\* ------------------------------------------------------------ row shapes
\* rows counts the Stock rows stored for the pair; quantity and
\* reserved_quantity are those of the row the pair's queries return
NoStockRow ==
    [exists |-> FALSE, rows |-> 0, quantity |-> 0, reserved_quantity |-> 0]
\* a row created with stock on hand
NewStockRow_Stocked ==
    [exists |-> TRUE, rows |-> 1, quantity |-> 1, reserved_quantity |-> 0]
\* the row get_or_create inserts: quantity and reserved_quantity default to 0
NewStockRow ==
    [exists |-> TRUE, rows |-> 1, quantity |-> 0, reserved_quantity |-> 0]

NoAuditRow ==
    [exists |-> FALSE, pair |-> "p1", quantity_before_audit |-> 0,
     quantity_recorded |-> 0, is_completed |-> FALSE, completed_at |-> NoTime]

NoObj ==
    [id |-> NoAudit, pair |-> "p1", quantity_before_audit |-> 0,
     quantity_recorded |-> 0, is_completed |-> FALSE, completed_at |-> NoTime]

NoLocal == [discrepancy |-> 0, stock_quantity |-> 0, raced |-> FALSE]
NoTx == [created |-> FALSE, updated |-> FALSE, newQty |-> 0, moves |-> <<>>]
NoHist == [ok |-> 0]
NoReq == [pair |-> "p1", amount |-> 0, available |-> 0, overlapped |-> FALSE]
NoLast == [op |-> "none", pair |-> "p1", amount |-> 0, outcome |-> "none",
           reserved_quantity |-> 0, quantity |-> 0]

\* Stock.available_quantity
available_quantity(s) == s.quantity - s.reserved_quantity

\* StockAudit.quantity_discrepancy
quantity_discrepancy_AtCompletion(o) ==
    o.quantity_recorded - stock[o.pair].quantity
quantity_discrepancy_Reversed(o) ==
    o.quantity_before_audit - o.quantity_recorded
quantity_discrepancy(o) == o.quantity_recorded - o.quantity_before_audit

\* @transaction.atomic on complete_audit
NotAtomic == FALSE
Atomic == TRUE

\* unique_together = [['product_variant', 'warehouse']]: the unique index makes
\* an INSERT for a pair wait for an uncommitted INSERT of the same pair
NoUniqueConstraint == FALSE
UniqueTogether == TRUE

\* the guard `if self.is_completed: return False`
NoGuard(o) == FALSE
AlreadyCompleted(o) == o.is_completed

\* quantity=F('quantity') + discrepancy, evaluated by the database on the row
ReadModifyWrite(rowQty, objQty, d) == objQty + d
UpdatedQuantity_Assigned(rowQty, objQty, d) == d
UpdatedQuantity(rowQty, objQty, d) == rowQty + d

\* the update runs without the filter, on every Stock row
EveryRow(p) == Pairs

\* Stock.objects.filter(pk=stock.pk): the rows the update of a completion
\* for pair p applies to
Filtered(p) == {p}

\* StockMovement.objects.create(...) of complete_audit
AuditMovement(o, d) ==
    [pair |-> o.pair, quantity_changed |-> d, movement_type |-> ADJUSTMENT,
     related_audit |-> o.id]

\* the rows are written with update_or_create keyed by pair and type: a row
\* of the pair with that movement_type is overwritten
UpsertMovements(log, moves) ==
    IF moves = <<>> THEN log
    ELSE IF \E i \in 1 .. Len(log) :
               /\ log[i].pair = moves[1].pair
               /\ log[i].movement_type = moves[1].movement_type
         THEN [i \in 1 .. Len(log) |->
                  IF /\ log[i].pair = moves[1].pair
                     /\ log[i].movement_type = moves[1].movement_type
                  THEN moves[1] ELSE log[i]]
         ELSE log \o moves

\* StockMovement.objects.create(...): the rows are inserted after those stored
InsertMovements(log, moves) == log \o moves

RECURSIVE SumChanged(_, _)
SumChanged(s, p) ==
    IF s = <<>> THEN 0
    ELSE (IF Head(s).pair = p THEN Head(s).quantity_changed ELSE 0)
         + SumChanged(Tail(s), p)

MovementsOf(a) ==
    {i \in 1 .. Len(movements) : movements[i].related_audit = a}

InTx(h) == pc[h] \in {"goc", "update", "create", "save"}

\* audits of pair p that are open (stored, not completed) see a quantity change
NoteChange(p) ==
    [a \in AuditIds |->
        IF audits[a].exists /\ audits[a].pair = p /\ ~audits[a].is_completed
        THEN TRUE
        ELSE interleaved[a]]

\* Handlers are interchangeable: they are numbered in the order of their loads.
InOrderHandler(h) == \A h2 \in Handlers : h2 < h => pc[h2] # "idle"

\* WorkerProductAudit: no row, no request
NoQuantity == 0 - 1            \* quantity_recorded IS NULL
NoPhoto == 0                   \* photo_taken IS NULL
NoWorkerAudit ==
    [exists |-> FALSE, quantity_recorded |-> NoQuantity, photo_taken |-> NoPhoto,
     is_completed |-> FALSE, completed_at |-> NoTime]
NoWorkerRequest == [at |-> "idle", instance |-> NoWorkerAudit, outcome |-> "none"]

InitWorker ==
    /\ waudit = NoWorkerAudit
    /\ wreq = [h \in Handlers |-> NoWorkerRequest]
    /\ wnow = 1

Products == {"a", "b"}
ImageIds == 1..MaxImages
NoImage == [exists |-> FALSE, name |-> "", is_main |-> FALSE]

InitImages ==
    /\ image_rows = [i \in ImageIds |-> NoImage]
    /\ product_images = [p \in Products |-> {}]

Threads == 1..MaxThreads
NoThread == [pc |-> "none", query |-> 1, item |-> 1, items |-> 0, told |-> FALSE]

\* module level of goog.py: the flags and the buttons as created
InitSearch ==
    /\ is_paused = FALSE
    /\ is_stopped = FALSE
    /\ search_button = TRUE
    /\ pause_button = FALSE
    /\ stop_button = FALSE
    /\ threads = [w \in Threads |-> NoThread]

CartIds == {1, 2, 3, 4}
Variants == {"v1", "v2"}
Sessions == {"s1", "s2", "s3"}
NoUser == "none"                \* Cart.user IS NULL
NoSession == "none"             \* Cart.session_key IS NULL
NoItem == 0                     \* no CartItem of the cart for the variant
NoCart == [exists |-> FALSE, user |-> NoUser, session_key |-> NoSession,
           items |-> [v \in Variants |-> NoItem]]
NoMerge == [at |-> "idle", session_key |-> NoSession, anonymous_cart |-> 0,
            user_cart |-> 0, items |-> [v \in Variants |-> NoItem],
            outcome |-> "none"]

InitCarts ==
    /\ carts = [c \in CartIds |-> NoCart]
    /\ mreq = [h \in Handlers |-> NoMerge]

\* the parts of the application besides the worker audits
InitRest ==
    /\ InitImages
    /\ InitSearch
    /\ InitCarts

InitApp ==
    /\ foreign_keys = TRUE
    /\ InitWorker
    /\ InitRest

InitLedger(c) ==
    /\ catalog = c
    /\ stock = [p \in Pairs |-> NoStockRow]
    /\ movements = <<>>
    /\ audits = [a \in AuditIds |-> NoAuditRow]
    /\ clock = 1
    /\ lock = [p \in Pairs |-> NoLock]
    /\ pc = [h \in Handlers |-> "idle"]
    /\ obj = [h \in Handlers |-> NoObj]
    /\ local = [h \in Handlers |-> NoLocal]
    /\ tx = [h \in Handlers |-> NoTx]
    /\ result = [h \in Handlers |-> "none"]
    /\ hist = [h \in Handlers |-> NoHist]
    /\ expected = [p \in Pairs |-> 0]
    /\ interleaved = [a \in AuditIds |-> FALSE]
    /\ imports = 0
    /\ req = [h \in Handlers |-> NoReq]
    /\ last = NoLast

InitCatalog(c) == InitLedger(c) /\ InitApp

\* one product variant in one warehouse
Init == InitCatalog({"p1"})

\* A StockAudit row is stored: quantity_before_audit and quantity_recorded are
\* required integer fields, is_completed defaults to False.
CreateAudit(a, p, b, r) ==
    /\ ~audits[a].exists
    /\ \A a2 \in AuditIds : a2 < a => audits[a2].exists
    /\ p \in catalog
    /\ audits' = [audits EXCEPT ![a] =
          [exists |-> TRUE, pair |-> p, quantity_before_audit |-> b,
           quantity_recorded |-> r, is_completed |-> FALSE,
           completed_at |-> NoTime]]
    /\ UNCHANGED <<catalog, stock, movements, clock, lock, pc, obj, local, tx,
                   result, hist, expected, interleaved, imports>>
    /\ UNCHANGED <<req, last>>
    /\ UNCHANGED appVars

\* import_products_from_excel, "Handle Stock":
\* Stock.objects.update_or_create(product, warehouse, defaults={'quantity': n})
\* The row is created with quantity n or its quantity is overwritten with n
\* (quantity is a PositiveIntegerField there: n >= 0); update_or_create locks
\* the row it updates, so it waits for an open transaction that wrote it.
Import(p, n) ==
    /\ lock[p] = NoLock
    /\ p \in catalog
    /\ imports < MaxImports
    /\ imports' = imports + 1
    /\ stock' = [stock EXCEPT ![p] =
          [exists |-> TRUE,
           rows |-> IF stock[p].exists THEN stock[p].rows ELSE 1,
           quantity |-> n,
           reserved_quantity |-> stock[p].reserved_quantity]]
    /\ expected' = [expected EXCEPT ![p] = n]
    /\ interleaved' = NoteChange(p)
    /\ UNCHANGED <<catalog, movements, audits, clock, lock, pc, obj, local, tx,
                   result, hist>>
    /\ UNCHANGED <<req, last>>
    /\ UNCHANGED appVars

\* A request handler fetches a StockAudit row into a model instance; the
\* instance lives for the rest of the request.
Load(h, a) ==
    /\ pc[h] = "idle"
    /\ InOrderHandler(h)
    /\ audits[a].exists
    /\ obj' = [obj EXCEPT ![h] =
          [id |-> a, pair |-> audits[a].pair,
           quantity_before_audit |-> audits[a].quantity_before_audit,
           quantity_recorded |-> audits[a].quantity_recorded,
           is_completed |-> audits[a].is_completed,
           completed_at |-> audits[a].completed_at]]
    /\ pc' = [pc EXCEPT ![h] = "ready"]
    /\ UNCHANGED <<catalog, stock, movements, audits, clock, lock, local, tx,
                   result, hist, expected, interleaved, imports>>
    /\ UNCHANGED <<req, last>>
    /\ UNCHANGED appVars

\* complete_audit, entry: the guard and `discrepancy = self.quantity_discrepancy`
Call(h) ==
    /\ pc[h] = "ready"
    /\ IF AlreadyCompleted(obj[h])
       THEN /\ result' = [result EXCEPT ![h] = "false"]
            /\ UNCHANGED <<pc, local>>
       ELSE /\ result' = [result EXCEPT ![h] = "none"]
            /\ pc' = [pc EXCEPT ![h] = "goc"]
            /\ local' = [local EXCEPT ![h] =
                  [discrepancy |-> quantity_discrepancy(obj[h]),
                   stock_quantity |-> 0, raced |-> FALSE]]
    /\ UNCHANGED <<catalog, stock, movements, audits, clock, lock, obj, tx, hist,
                   expected, interleaved, imports>>
    /\ UNCHANGED <<req, last>>
    /\ UNCHANGED appVars

\* stock, _ = Stock.objects.get_or_create(product_variant, warehouse)
GetOrCreate(h) ==
    /\ pc[h] = "goc"
    /\ LET p == obj[h].pair IN
       IF stock[p].exists
       THEN /\ local' = [local EXCEPT ![h].stock_quantity = stock[p].quantity]
            /\ UNCHANGED <<stock, lock, tx>>
       ELSE /\ UniqueTogether => lock[p] = NoLock
            /\ local' = [local EXCEPT ![h].stock_quantity = NewStockRow.quantity]
            /\ IF Atomic
               THEN /\ tx' = [tx EXCEPT ![h].created = TRUE]
                    /\ lock' = IF lock[p] = NoLock
                               THEN [lock EXCEPT ![p] = h] ELSE lock
                    /\ UNCHANGED stock
               ELSE /\ stock' = [stock EXCEPT ![p] = NewStockRow]
                    /\ UNCHANGED <<lock, tx>>
    /\ pc' = [pc EXCEPT ![h] = "update"]
    /\ UNCHANGED <<catalog, movements, audits, clock, obj, result, hist,
                   expected, interleaved, imports>>
    /\ UNCHANGED <<req, last>>
    /\ UNCHANGED appVars

\* Stock.objects.filter(pk=stock.pk).update(quantity=F('quantity') + discrepancy)
Update(h) ==
    /\ pc[h] = "update"
    /\ LET p == obj[h].pair
           rowQty == IF tx[h].created THEN NewStockRow.quantity
                     ELSE stock[p].quantity
           newQty == UpdatedQuantity(rowQty, local[h].stock_quantity,
                                     local[h].discrepancy)
       IN
       /\ lock[p] \in {NoLock, h}
       /\ local' = [local EXCEPT ![h].raced = (rowQty # local[h].stock_quantity)]
       /\ IF Atomic
          THEN /\ tx' = [tx EXCEPT ![h].updated = TRUE, ![h].newQty = newQty]
               /\ lock' = [lock EXCEPT ![p] = h]
               /\ UNCHANGED stock
          ELSE /\ stock' = [stock EXCEPT ![p].quantity = newQty]
               /\ UNCHANGED <<lock, tx>>
    /\ pc' = [pc EXCEPT ![h] = "create"]
    /\ UNCHANGED <<catalog, movements, audits, clock, obj, result, hist,
                   expected, interleaved, imports>>
    /\ UNCHANGED <<req, last>>
    /\ UNCHANGED appVars

\* a movement row is written whatever the discrepancy
AnyDiscrepancy(d) == TRUE

\* the test `if discrepancy != 0:` in front of StockMovement.objects.create
HasDiscrepancy(d) == d # 0

\* if discrepancy != 0: StockMovement.objects.create(...)
CreateMovement(h) ==
    /\ pc[h] = "create"
    /\ LET d == local[h].discrepancy
           m == AuditMovement(obj[h], d)
       IN
       IF HasDiscrepancy(d)
       THEN IF Atomic
            THEN /\ tx' = [tx EXCEPT ![h].moves = Append(@, m)]
                 /\ UNCHANGED movements
            ELSE /\ movements' = InsertMovements(movements, <<m>>)
                 /\ UNCHANGED tx
       ELSE UNCHANGED <<movements, tx>>
    /\ pc' = [pc EXCEPT ![h] = "save"]
    /\ UNCHANGED <<catalog, stock, audits, clock, lock, obj, local, result,
                   hist, expected, interleaved, imports>>
    /\ UNCHANGED <<req, last>>
    /\ UNCHANGED appVars

\* self.is_completed = True; self.completed_at = timezone.now()
Flagged(o) == [o EXCEPT !.is_completed = TRUE, !.completed_at = clock]

ReleaseLocks(h) == [p \in Pairs |-> IF lock[p] = h THEN NoLock ELSE lock[p]]

\* self.save(update_fields=['is_completed', 'completed_at']); return True;
\* leaving the atomic block commits the transaction.
Save(h) ==
    /\ pc[h] = "save"
    /\ LET p == obj[h].pair
           a == obj[h].id
           d == local[h].discrepancy
       IN
       /\ obj' = [obj EXCEPT ![h] = Flagged(obj[h])]
       /\ clock' = clock + 1
       /\ audits' = [audits EXCEPT ![a].is_completed = TRUE,
                                   ![a].completed_at = clock]
       /\ IF Atomic
          THEN /\ stock' = [q \in Pairs |->
                     IF q = p
                     THEN [exists |-> TRUE,
                           rows |-> stock[p].rows
                                    + (IF tx[h].created THEN 1 ELSE 0),
                           quantity |-> IF tx[h].updated THEN tx[h].newQty
                                        ELSE stock[p].quantity,
                           reserved_quantity |->
                              IF tx[h].created
                              THEN NewStockRow.reserved_quantity
                              ELSE stock[p].reserved_quantity]
                     ELSE IF tx[h].updated /\ q \in Filtered(p)
                             /\ stock[q].exists
                          THEN [stock[q] EXCEPT !.quantity = @ + d]
                          ELSE stock[q]]
               /\ movements' = InsertMovements(movements, tx[h].moves)
          ELSE UNCHANGED <<stock, movements>>
       /\ expected' = [expected EXCEPT ![p] = @ + d]
       /\ interleaved' = [NoteChange(p) EXCEPT ![a] = interleaved[a]]
    /\ tx' = [tx EXCEPT ![h] = NoTx]
    /\ lock' = ReleaseLocks(h)
    /\ pc' = [pc EXCEPT ![h] = "ready"]
    /\ result' = [result EXCEPT ![h] = "true"]
    /\ hist' = [hist EXCEPT ![h].ok = @ + 1]
    /\ local' = [local EXCEPT ![h].stock_quantity = 0]
    /\ UNCHANGED <<catalog, imports>>
    /\ UNCHANGED <<req, last>>
    /\ UNCHANGED appVars

\* A statement of the atomic block raises (database error, lost connection):
\* the transaction is rolled back and the exception reaches the caller.  When
\* the failing statement is self.save(), the two assignments before it have
\* already changed the instance in memory.
Abort(h) ==
    /\ InTx(h)
    /\ obj' = [obj EXCEPT ![h] = IF pc[h] = "save" THEN Flagged(obj[h]) ELSE @]
    /\ tx' = [tx EXCEPT ![h] = NoTx]
    /\ lock' = ReleaseLocks(h)
    /\ pc' = [pc EXCEPT ![h] = "ready"]
    /\ result' = [result EXCEPT ![h] = "error"]
    /\ local' = [local EXCEPT ![h] = NoLocal]
    /\ UNCHANGED <<catalog, stock, movements, audits, clock, hist, expected,
                   interleaved, imports>>
    /\ UNCHANGED <<req, last>>
    /\ UNCHANGED appVars

Next ==
    \/ \E a \in AuditIds, p \in Pairs, b \in Qtys, r \in Qtys :
          CreateAudit(a, p, b, r)
    \/ \E p \in Pairs, n \in Qtys : Import(p, n)
    \/ \E h \in Handlers, a \in AuditIds : Load(h, a)
    \/ \E h \in Handlers : Call(h)
    \/ \E h \in Handlers : GetOrCreate(h)
    \/ \E h \in Handlers : Update(h)
    \/ \E h \in Handlers : CreateMovement(h)
    \/ \E h \in Handlers : Save(h)
    \/ \E h \in Handlers : Abort(h)

Spec == Init /\ [][Next]_vars

\* ------------------------------------------------------------- two pairs
\* Two product variants in stock, each with its own audit: audit a counts
\* the pair PairOf(a) and is completed by request handler a.
PairOf(a) == IF a = 1 THEN "p1" ELSE "p2"

InitPairs == InitCatalog(Pairs)

NextPairs ==
    \/ \E a \in AuditIds, b \in Qtys, r \in Qtys :
          CreateAudit(a, PairOf(a), b, r)
    \/ \E p \in Pairs, n \in Qtys : Import(p, n)
    \/ \E h \in Handlers : Load(h, h)
    \/ \E h \in Handlers : Call(h)
    \/ \E h \in Handlers : GetOrCreate(h)
    \/ \E h \in Handlers : Update(h)
    \/ \E h \in Handlers : CreateMovement(h)
    \/ \E h \in Handlers : Save(h)
    \/ \E h \in Handlers : Abort(h)

SpecPairs == InitPairs /\ [][NextPairs]_vars

\* ----------------------------------------------------- reservation manager
\* The Stock model declares reserved_quantity and available_quantity; the
\* operations on them (append of the movement ledger, reserve, release and
\* consume of the reservation manager) follow the contracts of spec.md 4.2
\* and 4.3.  They form a specification of their own, SpecReservation.
Amounts == 1 .. MaxAmount
Deltas == (0 - MaxAmount .. MaxAmount) \ {0}

\* movement_type the caller passes with a delta
TypeOf(delta) == IF delta > 0 THEN PURCHASE ELSE SALE

Movement(p, delta, type) ==
    [pair |-> p, quantity_changed |-> delta, movement_type |-> type,
     related_audit |-> NoAudit]

\* the call completed last and the row it found
Completed(op, p, n, outcome) ==
    [op |-> op, pair |-> p, amount |-> n, outcome |-> outcome,
     reserved_quantity |-> stock[p].reserved_quantity,
     quantity |-> stock[p].quantity]

\* append(sku, location, delta, movement_type): the delta is applied to the
\* quantity and the movement is inserted in one transaction; a result below
\* zero is rejected with NegativeStockError.  The record is created on the
\* first movement of the pair.
append(p, delta) ==
    /\ p \in catalog
    /\ lock[p] = NoLock
    /\ Len(movements) < MaxMoves
    /\ stock[p].quantity + delta <= MaxOnHand
    /\ IF stock[p].quantity + delta < 0
       THEN /\ last' = Completed("append", p, delta, "NegativeStockError")
            /\ UNCHANGED <<stock, movements>>
       ELSE /\ last' = Completed("append", p, delta, "ok")
            /\ stock' = [stock EXCEPT ![p] =
                  [exists |-> TRUE,
                   rows |-> IF stock[p].exists THEN stock[p].rows ELSE 1,
                   quantity |-> stock[p].quantity + delta,
                   reserved_quantity |-> stock[p].reserved_quantity]]
            /\ movements' = Append(movements, Movement(p, delta, TypeOf(delta)))
    /\ UNCHANGED <<catalog, audits, clock, lock, pc, obj, local, tx, result,
                   hist, expected, interleaved, imports, req>>
    /\ UNCHANGED appVars

\* reserve: the check of available_quantity and the increment run in one
\* transaction that holds the row from the check on
StaleCheck == FALSE
CheckInTransaction == TRUE

\* reserved_quantity incremented by the amount, quantity untouched
ReservedRow_FromQuantity(s, n) ==
    [s EXCEPT !.reserved_quantity = @ + n, !.quantity = @ - n]
ReservedRow(s, n) == [s EXCEPT !.reserved_quantity = @ + n]

\* release: reserved_quantity decremented, clamped at zero
Unclamped(x) == x
Clamped(x) == IF x < 0 THEN 0 ELSE x

\* consume: reserved_quantity and quantity decremented together
ConsumedRow_ReservedOnly(s, n) == [s EXCEPT !.reserved_quantity = @ - n]
ConsumedRow(s, n) ==
    [s EXCEPT !.reserved_quantity = @ - n, !.quantity = @ - n]

\* reserve(sku, location, amount) is called by a request handler
ReserveCall(h, p, n) ==
    /\ pc[h] = "idle"
    /\ InOrderHandler(h)
    /\ p \in catalog
    /\ stock[p].exists
    /\ pc' = [pc EXCEPT ![h] = "called"]
    /\ result' = [result EXCEPT ![h] = "none"]
    /\ req' = [h2 \in Handlers |->
          IF h2 = h
          THEN [pair |-> p, amount |-> n, available |-> 0,
                overlapped |-> \E h3 \in Handlers \ {h} :
                                  pc[h3] # "idle" /\ req[h3].pair = p]
          ELSE IF pc[h2] # "idle" /\ req[h2].pair = p
               THEN [req[h2] EXCEPT !.overlapped = TRUE]
               ELSE req[h2]]
    /\ UNCHANGED <<catalog, stock, movements, audits, clock, lock, obj, local,
                   tx, hist, expected, interleaved, imports, last>>
    /\ UNCHANGED appVars

\* reserve, the check: available_quantity >= amount, read inside the transaction
ReserveCheck(h) ==
    /\ pc[h] = "called"
    /\ LET p == req[h].pair IN
       /\ lock[p] = NoLock
       /\ req' = [req EXCEPT ![h].available = available_quantity(stock[p])]
       /\ lock' = IF CheckInTransaction THEN [lock EXCEPT ![p] = h] ELSE lock
    /\ pc' = [pc EXCEPT ![h] = "checked"]
    /\ UNCHANGED <<catalog, stock, movements, audits, clock, obj, local, tx,
                   result, hist, expected, interleaved, imports, last>>
    /\ UNCHANGED appVars

\* reserve, the outcome: the increment and the commit, or
\* InsufficientAvailableError without side effects
ReserveApply(h) ==
    /\ pc[h] = "checked"
    /\ LET p == req[h].pair
           n == req[h].amount
       IN
       /\ lock[p] \in {NoLock, h}
       /\ IF req[h].available >= n
          THEN /\ stock' = [stock EXCEPT ![p] = ReservedRow(stock[p], n)]
               /\ result' = [result EXCEPT ![h] = "ok"]
               /\ last' = Completed("reserve", p, n, "ok")
          ELSE /\ result' = [result EXCEPT ![h] = "InsufficientAvailableError"]
               /\ last' = Completed("reserve", p, n, "InsufficientAvailableError")
               /\ UNCHANGED stock
    /\ lock' = ReleaseLocks(h)
    /\ pc' = [pc EXCEPT ![h] = "idle"]
    /\ req' = [req EXCEPT ![h].available = 0]
    /\ UNCHANGED <<catalog, movements, audits, clock, obj, local, tx, hist,
                   expected, interleaved, imports>>
    /\ UNCHANGED appVars

\* release(sku, location, amount)
release(p, n) ==
    /\ p \in catalog
    /\ stock[p].exists
    /\ lock[p] = NoLock
    /\ stock' = [stock EXCEPT ![p].reserved_quantity = Clamped(@ - n)]
    /\ last' = Completed("release", p, n, "ok")
    /\ UNCHANGED <<catalog, movements, audits, clock, lock, pc, obj, local, tx,
                   result, hist, expected, interleaved, imports, req>>
    /\ UNCHANGED appVars

\* consume(sku, location, amount)
consume(p, n) ==
    /\ p \in catalog
    /\ stock[p].exists
    /\ lock[p] = NoLock
    /\ n <= stock[p].reserved_quantity => Len(movements) < MaxMoves
    /\ IF n > stock[p].reserved_quantity
       THEN /\ last' = Completed("consume", p, n, "OverConsumptionError")
            /\ UNCHANGED <<stock, movements>>
       ELSE /\ last' = Completed("consume", p, n, "ok")
            /\ stock' = [stock EXCEPT ![p] = ConsumedRow(stock[p], n)]
            /\ movements' = Append(movements, Movement(p, 0 - n, SALE))
    /\ UNCHANGED <<catalog, audits, clock, lock, pc, obj, local, tx, result,
                   hist, expected, interleaved, imports, req>>
    /\ UNCHANGED appVars

NextReservation ==
    \/ \E p \in Pairs, delta \in Deltas : append(p, delta)
    \/ \E h \in Handlers, p \in Pairs, n \in Amounts : ReserveCall(h, p, n)
    \/ \E h \in Handlers : ReserveCheck(h)
    \/ \E h \in Handlers : ReserveApply(h)
    \/ \E p \in Pairs, n \in Amounts : release(p, n)
    \/ \E p \in Pairs, n \in Amounts : consume(p, n)

SpecReservation == Init /\ [][NextReservation]_vars

\* ------------------------------------------------------ worker audit view
\* store/views.py worker_product_audit_view with WorkerProductAuditForm and
\* WorkerProductAudit.save, for one product (the audit is OneToOne with it).
\* Requests run concurrently; each works on the instance it fetched.
WQtys == {NoQuantity} \cup Qtys

\* Image rows the view stores: new_image.save() is under `if commit:` and the
\* view calls form.save(commit=False)
StoredImages == {}

\* photo_taken refers to an Image row that does not exist
Dangling(o) == o.photo_taken # NoPhoto /\ o.photo_taken \notin StoredImages

\* WorkerProductAudit.save, the status fields before super().save()
WithStatus(o, now) ==
    IF o.quantity_recorded # NoQuantity /\ o.photo_taken # NoPhoto
    THEN IF ~o.is_completed
         THEN [o EXCEPT !.is_completed = TRUE, !.completed_at = now]
         ELSE o
    ELSE IF o.is_completed
         THEN [o EXCEPT !.is_completed = FALSE, !.completed_at = NoTime]
         ELSE o

\* WorkerProductAudit.objects.get_or_create(product=product, ...), then
\* WorkerProductAuditForm(instance=audit_instance), whose __init__ reads
\* self.instance.photo_taken
ViewGet(h) ==
    /\ wreq[h].at = "idle"
    /\ LET row == IF waudit.exists THEN waudit
                  ELSE [WithStatus(NoWorkerAudit, wnow) EXCEPT !.exists = TRUE]
       IN
       /\ waudit' = row
       /\ wreq' = [wreq EXCEPT ![h] =
             IF Dangling(row)
             THEN [at |-> "idle", instance |-> NoWorkerAudit,
                   outcome |-> "DoesNotExist"]
             ELSE [at |-> "form", instance |-> row, outcome |-> "none"]]
    /\ UNCHANGED <<foreign_keys, wnow>>
    /\ UNCHANGED <<ledgerVars, exceptWorker>>

\* GET: the form is rendered
ViewRender(h) ==
    /\ wreq[h].at = "form"
    /\ wreq' = [wreq EXCEPT ![h] = [NoWorkerRequest EXCEPT !.outcome = "rendered"]]
    /\ UNCHANGED <<foreign_keys, waudit, wnow>>
    /\ UNCHANGED <<ledgerVars, exceptWorker>>

\* POST with quantity_recorded q (blank allowed) and, when upload holds, a
\* photo: form.is_valid(), form.save(commit=False), audit_to_save.save()
ViewPost(h, q, upload) ==
    /\ wreq[h].at = "form"
    /\ wnow <= MaxSaves
    /\ wnow' = wnow + 1
    /\ LET instance == wreq[h].instance
           valid == instance.photo_taken # NoPhoto \/ upload
           assigned == [instance EXCEPT
                           !.quantity_recorded = q,
                           !.photo_taken = IF upload THEN wnow ELSE @]
           saved == WithStatus(assigned, wnow)
       IN
       IF ~valid
       THEN /\ wreq' = [wreq EXCEPT ![h] =
                   [NoWorkerRequest EXCEPT !.outcome = "invalid"]]
            /\ UNCHANGED waudit
       ELSE IF foreign_keys /\ Dangling(saved)
            THEN /\ wreq' = [wreq EXCEPT ![h] =
                        [NoWorkerRequest EXCEPT !.outcome = "IntegrityError"]]
                 /\ UNCHANGED waudit
            ELSE /\ wreq' = [wreq EXCEPT ![h] =
                        [NoWorkerRequest EXCEPT !.outcome = "saved"]]
                 /\ waudit' = saved
    /\ UNCHANGED foreign_keys
    /\ UNCHANGED <<ledgerVars, exceptWorker>>

InitWorkerStore ==
    /\ InitLedger({"p1"})
    /\ foreign_keys \in BOOLEAN
    /\ InitWorker
    /\ InitRest

NextWorker ==
    \/ \E h \in Handlers : ViewGet(h)
    \/ \E h \in Handlers : ViewRender(h)
    \/ \E h \in Handlers, q \in WQtys, upload \in BOOLEAN : ViewPost(h, q, upload)

SpecWorker == InitWorkerStore /\ [][NextWorker]_vars

\* --------------------------------------------------------- product images
\* store/models.py Image.save and the places that create an Image and
\* associate it with a product.

\* images of product p marked as main
MainImages(p) == {i \in product_images[p] : image_rows[i].is_main}

\* Image.save of the instance row with primary key i: the row is written,
\* and when it is main, the other main images of every product i is
\* associated with are unset (self.products.all() is read after the row is
\* written)
ImageSave(rows, links, i, row) ==
    [j \in ImageIds |->
        IF j = i THEN row
        ELSE IF /\ row.is_main
                /\ rows[j].is_main
                /\ \E p \in Products : i \in links[p] /\ j \in links[p]
             THEN [rows[j] EXCEPT !.is_main = FALSE]
             ELSE rows[j]]

\* Image(name=..., is_main=...)
Image(name, is_main) == [exists |-> TRUE, name |-> name, is_main |-> is_main]

\* product.images.add(image)
ImagesAdd(links, p, i) == [links EXCEPT ![p] = @ \cup {i}]

\* a primary key not used by any Image row
FreeImage(i) ==
    /\ ~image_rows[i].exists
    /\ \A j \in ImageIds : j < i => image_rows[j].exists

\* import_products_from_excel: Image.objects.create(..., is_main=is_main)
\* and then product_instance.images.add(image_instance)
ImportImage(p, is_main) ==
    \E i \in ImageIds :
        /\ FreeImage(i)
        /\ image_rows' = ImageSave(image_rows, product_images, i,
                                   Image("import", is_main))
        /\ product_images' = ImagesAdd(product_images, p, i)
        /\ UNCHANGED <<ledgerVars, exceptImages>>

\* save_image_for_product(product, image_url, image_index)
save_image_for_product(p, first) ==
    \E i \in ImageIds :
        /\ FreeImage(i)
        /\ LET is_main == first /\ MainImages(p) = {}
           IN image_rows' = ImageSave(image_rows, product_images, i,
                                    Image("search", is_main))
        /\ product_images' = ImagesAdd(product_images, p, i)
        /\ UNCHANGED <<ledgerVars, exceptImages>>

\* upload_webcam_image: product.images.create(..., is_main=False)
upload_webcam_image(p) ==
    \E i \in ImageIds :
        /\ FreeImage(i)
        /\ image_rows' = ImageSave(image_rows, product_images, i,
                                   Image("webcam", FALSE))
        /\ product_images' = ImagesAdd(product_images, p, i)
        /\ UNCHANGED <<ledgerVars, exceptImages>>

\* an existing Image edited and saved (ImageAdmin, ImageForm) with
\* is_main = main
EditImage(i, main) ==
    /\ image_rows[i].exists
    /\ image_rows[i].is_main # main
    /\ image_rows' = ImageSave(image_rows, product_images, i,
                            [image_rows[i] EXCEPT !.is_main = main])
    /\ UNCHANGED product_images
    /\ UNCHANGED <<ledgerVars, exceptImages>>

InitImageStore == InitCatalog({"p1"})

NextImages ==
    \/ \E p \in Products, is_main \in BOOLEAN : ImportImage(p, is_main)
    \/ \E p \in Products, first \in BOOLEAN : save_image_for_product(p, first)
    \/ \E p \in Products : upload_webcam_image(p)
    \/ \E i \in ImageIds, main \in BOOLEAN : EditImage(i, main)

SpecImages == InitImageStore /\ [][NextImages]_vars

\* -------------------------------------------------------- image downloader
\* gsearch/goog.py: the Tk callbacks on_search, on_pause, on_stop run on the
\* main thread; every search starts a daemon thread running search_thread,
\* which calls save_images for each query.  The flags are module globals
\* shared by all threads.  told records that Stop was pressed while the
\* thread was running.
Running == {w \in Threads : threads[w].pc \notin {"none", "done"}}

\* on_search; valid is false when the directory dialog is cancelled, no
\* query is entered or the number of images is not a positive integer
on_search(valid) ==
    /\ search_button
    /\ is_paused' = FALSE
    /\ is_stopped' = FALSE
    /\ pause_button' = TRUE
    /\ stop_button' = TRUE
    /\ IF valid
       THEN /\ search_button' = FALSE
            /\ \E w \in Threads :
                 /\ w \notin Running
                 /\ \A v \in Threads : v < w => v \in Running
                 /\ threads' = [threads EXCEPT ![w] =
                                   [NoThread EXCEPT !.pc = "query"]]
       ELSE /\ search_button' = TRUE
            /\ UNCHANGED threads
    /\ UNCHANGED <<ledgerVars, exceptSearch>>

on_pause ==
    /\ pause_button
    /\ is_paused' = ~is_paused
    /\ UNCHANGED <<is_stopped, search_button, pause_button, stop_button, threads>>
    /\ UNCHANGED <<ledgerVars, exceptSearch>>

on_stop ==
    /\ stop_button
    /\ is_stopped' = TRUE
    /\ stop_button' = FALSE
    /\ search_button' = TRUE
    /\ threads' = [w \in Threads |->
                      IF w \in Running THEN [threads[w] EXCEPT !.told = TRUE]
                      ELSE threads[w]]
    /\ UNCHANGED <<is_paused, pause_button>>
    /\ UNCHANGED <<ledgerVars, exceptSearch>>

\* search_thread: head of `for i, query in enumerate(queries)` and
\* search_images, which returns no items or some
QueryHead(w) ==
    /\ threads[w].pc = "query"
    /\ IF threads[w].query > MaxQueries \/ is_stopped
       THEN threads' = [threads EXCEPT ![w].pc = "finish"]
       ELSE \E n \in {0, MaxItems} :
              threads' = [threads EXCEPT ![w] =
                  IF n = 0
                  THEN [@ EXCEPT !.query = @ + 1]
                  ELSE [@ EXCEPT !.pc = "item", !.item = 1, !.items = n]]
    /\ UNCHANGED <<is_paused, is_stopped, search_button, pause_button, stop_button>>
    /\ UNCHANGED <<ledgerVars, exceptSearch>>

\* save_images: head of `for i, item in enumerate(image_items)` with
\* `if is_stopped: break`
ItemHead(w) ==
    /\ threads[w].pc = "item"
    /\ threads' = [threads EXCEPT ![w] =
          IF @.item > @.items \/ is_stopped
          THEN [@ EXCEPT !.pc = "query", !.query = @ + 1]
          ELSE [@ EXCEPT !.pc = "pause"]]
    /\ UNCHANGED <<is_paused, is_stopped, search_button, pause_button, stop_button>>
    /\ UNCHANGED <<ledgerVars, exceptSearch>>

\* save_images: `while is_paused: time.sleep(0.5)`
PauseWait(w) ==
    /\ threads[w].pc = "pause"
    /\ threads' = [threads EXCEPT ![w] =
          IF is_paused THEN @ ELSE [@ EXCEPT !.pc = "download"]]
    /\ UNCHANGED <<is_paused, is_stopped, search_button, pause_button, stop_button>>
    /\ UNCHANGED <<ledgerVars, exceptSearch>>

\* save_images: one download attempt (requests.get with timeout, saved or
\* failed)
Download(w) ==
    /\ threads[w].pc = "download"
    /\ threads' = [threads EXCEPT ![w] =
          [@ EXCEPT !.pc = "item", !.item = @ + 1]]
    /\ UNCHANGED <<is_paused, is_stopped, search_button, pause_button, stop_button>>
    /\ UNCHANGED <<ledgerVars, exceptSearch>>

\* search_thread: the summary and the buttons after the loop
Finish(w) ==
    /\ threads[w].pc = "finish"
    /\ search_button' = TRUE
    /\ pause_button' = FALSE
    /\ stop_button' = FALSE
    /\ threads' = [threads EXCEPT ![w].pc = "done"]
    /\ UNCHANGED <<is_paused, is_stopped>>
    /\ UNCHANGED <<ledgerVars, exceptSearch>>

search_thread(w) ==
    \/ QueryHead(w)
    \/ ItemHead(w)
    \/ PauseWait(w)
    \/ Download(w)
    \/ Finish(w)

InitDownloader == InitCatalog({"p1"})

NextSearch ==
    \/ \E valid \in BOOLEAN : on_search(valid)
    \/ on_pause
    \/ on_stop
    \/ \E w \in Threads : search_thread(w)

SpecSearch == InitDownloader /\ [][NextSearch]_vars

\* every started thread keeps running (the interpreter schedules it), and a
\* thread in the sleep loop that is resumed again and again gets past it;
\* the user is not obliged to press anything
SpecSearchFair ==
    /\ SpecSearch
    /\ \A w \in Threads : WF_vars(search_thread(w)) /\ SF_vars(PauseWait(w))

\* -------------------------------------------------------------- cart merge
\* models7.py / modelsGrok.py merge_anonymous_cart_with_user_cart, the
\* user_logged_in receiver, for one user.  It is @transaction.atomic: its
\* reads happen when it runs, its writes become visible at commit, and
\* logins of the same user can run concurrently.
TheUser == "u"

\* carts as the shop has them when a login starts: the user's cart, if any,
\* and one anonymous cart per session, if any
CartOf(user, session_key, items) ==
    [exists |-> TRUE, user |-> user, session_key |-> session_key, items |-> items]

CartTables ==
    LET Items == [Variants -> 0..MaxCartQty]
        Rows(user, session_key) ==
            {NoCart} \cup {CartOf(user, session_key, i) : i \in Items}
    IN {<<own, c1, c2, c3>> :
            own \in Rows(TheUser, NoSession), c1 \in Rows(NoUser, "s1"),
            c2 \in Rows(NoUser, "s2"), c3 \in Rows(NoUser, "s3")}

\* Cart.objects.filter(session_key=session_key, user__isnull=True)
AnonymousCarts(k) ==
    {c \in CartIds : carts[c].exists /\ carts[c].user = NoUser
                      /\ carts[c].session_key = k}

\* Cart.objects.filter(user=user)
UserCarts == {c \in CartIds : carts[c].exists /\ carts[c].user = TheUser}

\* the reads of the receiver: the anonymous cart of the session, the cart
\* of the user, the items of the anonymous cart
MergeBegin(h, k) ==
    /\ mreq[h].at = "idle"
    /\ \A g \in Handlers : g < h => mreq[g].at # "idle" \/ mreq[g].outcome # "none"
    /\ IF AnonymousCarts(k) = {}
       THEN mreq' = [mreq EXCEPT ![h] = [NoMerge EXCEPT !.outcome = "no anonymous cart"]]
       ELSE \E a \in AnonymousCarts(k) :
              IF UserCarts = {}
              THEN mreq' = [mreq EXCEPT ![h] =
                       [at |-> "adopt", session_key |-> k, anonymous_cart |-> a,
                        user_cart |-> 0, items |-> carts[a].items,
                        outcome |-> "none"]]
              ELSE IF Cardinality(UserCarts) > 1
              THEN mreq' = [mreq EXCEPT ![h] =
                       [NoMerge EXCEPT !.outcome = "MultipleObjectsReturned"]]
              ELSE \E u \in UserCarts :
                     mreq' = [mreq EXCEPT ![h] =
                       [at |-> "merge", session_key |-> k, anonymous_cart |-> a,
                        user_cart |-> u, items |-> carts[a].items,
                        outcome |-> "none"]]
    /\ UNCHANGED carts
    /\ UNCHANGED <<ledgerVars, exceptCarts>>

\* CartItem.objects.get_or_create(cart=user_cart, product_variant=...,
\* defaults={'quantity': q}) and, when the item existed,
\* quantity = F('quantity') + q
MergedItems(existing, added) ==
    [v \in Variants |->
        IF added[v] = NoItem THEN existing[v]
        ELSE IF existing[v] = NoItem THEN added[v]
        ELSE existing[v] + added[v]]

\* the writes of the receiver, at commit
MergeCommit(h) ==
    /\ mreq[h].at # "idle"
    /\ LET a == mreq[h].anonymous_cart
           u == mreq[h].user_cart
       IN
       IF mreq[h].at = "merge"
       THEN /\ carts' = [carts EXCEPT
                   ![u] = [@ EXCEPT !.items = MergedItems(carts[u].items, mreq[h].items)],
                   ![a] = NoCart]
            /\ mreq' = [mreq EXCEPT ![h] = [NoMerge EXCEPT !.outcome = "merged"]]
       ELSE IF carts[a].exists
       THEN /\ carts' = [carts EXCEPT
                   ![a] = [@ EXCEPT !.user = TheUser, !.session_key = NoSession]]
            /\ mreq' = [mreq EXCEPT ![h] = [NoMerge EXCEPT !.outcome = "adopted"]]
       ELSE /\ mreq' = [mreq EXCEPT ![h] = [NoMerge EXCEPT !.outcome = "DatabaseError"]]
            /\ UNCHANGED carts
    /\ UNCHANGED <<ledgerVars, exceptCarts>>

InitCartStore ==
    /\ InitLedger({"p1"})
    /\ foreign_keys = TRUE
    /\ InitWorker
    /\ InitImages
    /\ InitSearch
    /\ carts \in CartTables
    /\ mreq = [h \in Handlers |-> NoMerge]

NextCarts ==
    \/ \E h \in Handlers, k \in Sessions : MergeBegin(h, k)
    \/ \E h \in Handlers : MergeCommit(h)

SpecCarts == InitCartStore /\ [][NextCarts]_vars

\* ------------------------------------------------------------------ claims
StoredQuantity(p) == IF stock[p].exists THEN stock[p].quantity ELSE 0
StoredDiscrepancy(a) ==
    audits[a].quantity_recorded - audits[a].quantity_before_audit

\* C1 (ledger consistency): for every pair the stock quantity equals the sum
\* of quantity_changed over the movements stored for that pair.
LedgerConsistency ==
    \A p \in Pairs : StoredQuantity(p) = SumChanged(movements, p)

\* C2 (non-negativity): no stock row has a negative quantity or a negative
\* reserved_quantity.
NonNegativity ==
    \A p \in Pairs : stock[p].quantity >= 0 /\ stock[p].reserved_quantity >= 0

\* C3 (reservation bound): reserved_quantity <= quantity for every stock row,
\* that is, available_quantity is never negative.
ReservationBound ==
    \A p \in Pairs : stock[p].exists => available_quantity(stock[p]) >= 0

\* C4 (completed at most once under concurrency): whatever the interleaving of
\* complete calls made through separately loaded instances of one audit, at
\* most one adjustment movement references the audit.
CompletedAtMostOnce ==
    \A a \in AuditIds : Cardinality(MovementsOf(a)) <= 1

NoLostUpdates ==
    \A p \in Pairs : StoredQuantity(p) = expected[p]

RacingCompletionsCommitted ==
    \E h1, h2 \in Handlers :
        /\ h1 # h2
        /\ obj[h1].id # obj[h2].id
        /\ obj[h1].pair = obj[h2].pair
        /\ result[h1] = "true" /\ result[h2] = "true"
        /\ local[h1].discrepancy # 0 /\ local[h2].discrepancy # 0
        /\ local[h2].raced

\* C7 (all-or-nothing): the quantity change, the adjustment movement and the
\* completion mark of an audit reach the tables in one step or not at all, and
\* an aborted completion changes no table.
Appended == SubSeq(movements', Len(movements) + 1, Len(movements'))
StoredQuantityAfter(p) == IF stock'[p].exists THEN stock'[p].quantity ELSE 0

AllOrNothingStep ==
    /\ Len(movements') >= Len(movements)
    /\ SubSeq(movements', 1, Len(movements)) = movements
    /\ Len(Appended) <= 1
    /\ \A i \in 1 .. Len(Appended) :
          /\ StoredQuantityAfter(Appended[i].pair)
                = StoredQuantity(Appended[i].pair) + Appended[i].quantity_changed
          /\ audits'[Appended[i].related_audit].is_completed
    /\ \A a \in AuditIds :
          (audits'[a].is_completed /\ ~audits[a].is_completed
              /\ StoredDiscrepancy(a) # 0)
          => \E i \in 1 .. Len(Appended) : Appended[i].related_audit = a
    /\ \A p \in Pairs :
          (StoredQuantityAfter(p) # StoredQuantity(p) /\ imports' = imports)
          => \E i \in 1 .. Len(Appended) : Appended[i].pair = p
    /\ \A h \in Handlers :
          Abort(h) => UNCHANGED <<stock, movements, audits>>

AllOrNothing ==
    /\ [](\A a \in AuditIds :
            (audits[a].exists /\ StoredDiscrepancy(a) # 0)
            => (audits[a].is_completed <=> MovementsOf(a) # {}))
    /\ [][AllOrNothingStep]_vars

CommittedAndAborted ==
    \E h1, h2 \in Handlers :
        /\ result[h1] = "true" /\ local[h1].discrepancy # 0
        /\ result[h2] = "error" /\ obj[h2].is_completed
        /\ ~audits[obj[h2].id].is_completed
        /\ MovementsOf(obj[h2].id) = {}

\* C8 (retry after abort): a complete call reports "already completed" (returns
\* False) only for an audit that is completed in the table.
RetryAfterAbort ==
    \A h \in Handlers :
        result[h] = "false" => audits[obj[h].id].is_completed

\* C9 (discrepancy correctness): a successful completion of an audit with
\* stored values B and R, R # B, appends exactly one movement
\* (pair, R - B, adjustment, audit) and changes the stored quantity by R - B
\* from its value at completion time.
DiscrepancyCorrectness ==
    [][\A h \in Handlers :
          (Save(h) /\ StoredDiscrepancy(obj[h].id) # 0) =>
             /\ movements' = Append(movements,
                   [pair |-> audits[obj[h].id].pair,
                    quantity_changed |-> StoredDiscrepancy(obj[h].id),
                    movement_type |-> ADJUSTMENT,
                    related_audit |-> obj[h].id])
             /\ StoredQuantityAfter(audits[obj[h].id].pair)
                  = StoredQuantity(audits[obj[h].id].pair)
                    + StoredDiscrepancy(obj[h].id)]_vars

CompletedAfterOtherMovements ==
    \E a \in AuditIds :
        /\ audits[a].is_completed
        /\ StoredDiscrepancy(a) # 0
        /\ interleaved[a]
        /\ Cardinality(MovementsOf(a)) = 1
        /\ StoredQuantity(audits[a].pair) # audits[a].quantity_recorded

\* C10 (snapshot at opening): the discrepancy of an audit is fixed by the row
\* stored when the audit was opened; quantity changes between opening and
\* completing do not alter it: every movement of an audit carries
\* quantity_recorded - quantity_before_audit of the stored row, and so does
\* every transaction in flight.
SnapshotAtOpening ==
    /\ \A i \in 1 .. Len(movements) :
          /\ movements[i].quantity_changed
                = StoredDiscrepancy(movements[i].related_audit)
          /\ movements[i].pair = audits[movements[i].related_audit].pair
    /\ \A h \in Handlers :
          InTx(h) => local[h].discrepancy = StoredDiscrepancy(obj[h].id)

\* scaled trace: audit opened at quantity 0 with before = 0, another audit of
\* the pair adds 1 while it is open, count 1 recorded, completed:
\* discrepancy 1 - 0 = 1, final quantity 1 + 1 = 2, one adjustment of +1.
ScenarioSnapshot ==
    \E a \in AuditIds :
        /\ audits[a].is_completed
        /\ audits[a].quantity_before_audit = 0
        /\ audits[a].quantity_recorded = 1
        /\ interleaved[a]
        /\ imports = 0
        /\ StoredQuantity(audits[a].pair) = 2
        /\ \E i \in MovementsOf(a) :
              MovementsOf(a) = {i} /\ movements[i].quantity_changed = 1

\* C11 (zero discrepancy): completing an audit whose quantity_recorded equals
\* its quantity_before_audit appends no movement and leaves the stock quantity
\* of the pair unchanged, and the audit is marked completed all the same.
ZeroDiscrepancy ==
    [][\A h \in Handlers :
          (Save(h) /\ StoredDiscrepancy(obj[h].id) = 0) =>
             /\ movements' = movements
             /\ StoredQuantityAfter(audits[obj[h].id].pair)
                  = StoredQuantity(audits[obj[h].id].pair)
             /\ audits'[obj[h].id].is_completed
             /\ result'[h] = "true"]_vars

CompletedWithoutMovement ==
    \E h \in Handlers :
        /\ result[h] = "true"
        /\ audits[obj[h].id].is_completed
        /\ audits[obj[h].id].quantity_recorded = 1
        /\ audits[obj[h].id].quantity_before_audit = 1
        /\ StoredQuantity(obj[h].pair) = 1
        /\ MovementsOf(obj[h].id) = {}

\* C12 (completed is terminal): once the stored is_completed of an audit is
\* true, no step makes it false, none changes quantity_before_audit or
\* quantity_recorded, and none applies the audit again: no completion of that
\* audit commits and no further movement references it.
MovementsOfAfter(a) ==
    {i \in 1 .. Len(movements') : movements'[i].related_audit = a}

CompletedIsTerminal ==
    [][\A a \in AuditIds :
          audits[a].is_completed =>
             /\ audits'[a].is_completed
             /\ audits'[a].quantity_before_audit = audits[a].quantity_before_audit
             /\ audits'[a].quantity_recorded = audits[a].quantity_recorded
             /\ MovementsOfAfter(a) = MovementsOf(a)
             /\ \A h \in Handlers : obj[h].id = a => ~Save(h)]_vars

\* C13 (every quantity change is justified by a movement): a step that changes
\* the stored quantity of a pair appends, in that same step, exactly one
\* movement of the pair whose quantity_changed is the change; no step assigns
\* a quantity without one.
JustifiedByMovement ==
    [][\A p \in Pairs :
          StoredQuantityAfter(p) # StoredQuantity(p) =>
             /\ Len(movements') = Len(movements) + 1
             /\ SubSeq(movements', 1, Len(movements)) = movements
             /\ movements'[Len(movements')].pair = p
             /\ movements'[Len(movements')].quantity_changed
                  = StoredQuantityAfter(p) - StoredQuantity(p)]_vars

\* C14 (negative change rejected): a change that would leave a negative
\* quantity is not carried out: no step ends with a negative quantity of a pair
\* unless it left that quantity as it was and appended no movement of the
\* pair, and no complete call returns True with such a quantity stored.
NegativeChangeRejected ==
    [][/\ \A p \in Pairs :
             StoredQuantityAfter(p) < 0 =>
                /\ StoredQuantityAfter(p) = StoredQuantity(p)
                /\ \A i \in Len(movements) + 1 .. Len(movements') :
                      movements'[i].pair # p
       /\ \A h \in Handlers :
             Save(h) => StoredQuantityAfter(obj[h].pair) >= 0]_vars

\* C15 (concurrent reservation race): a reserve call succeeds exactly when
\* the available quantity of the row at the moment of its increment covers
\* the amount, so reserves never raise reserved_quantity above quantity; of
\* two overlapping reserve calls of n each against an available quantity a
\* with n <= a < 2n, the one deciding after the other's success fails with
\* InsufficientAvailableError.
ReservationRace ==
    [][\A h \in Handlers :
          ReserveApply(h) =>
             LET p == req[h].pair
                 n == req[h].amount
             IN
             /\ result'[h] \in {"ok", "InsufficientAvailableError"}
             /\ result'[h] = "ok" <=> available_quantity(stock[p]) >= n
             /\ result'[h] = "ok" =>
                   /\ stock'[p].reserved_quantity
                        = stock[p].reserved_quantity + n
                   /\ stock'[p].reserved_quantity <= stock'[p].quantity
             /\ result'[h] # "ok" => stock' = stock
             /\ (/\ req[h].overlapped
                 /\ last.op = "reserve" /\ last.outcome = "ok"
                 /\ last.pair = p /\ last.amount = n
                 /\ n <= last.quantity - last.reserved_quantity
                 /\ last.quantity - last.reserved_quantity < 2 * n)
                => result'[h] = "InsufficientAvailableError"]_vars

\* scaled race: two overlapping reserve(2) against quantity 3, reserved 0
ConcurrentReservesDecided ==
    \E h1, h2 \in Handlers :
        /\ h1 # h2
        /\ pc[h1] = "idle" /\ pc[h2] = "idle"
        /\ req[h1].overlapped /\ req[h2].overlapped
        /\ req[h1].pair = req[h2].pair
        /\ req[h1].amount = 2 /\ req[h2].amount = 2
        /\ result[h1] = "ok"
        /\ result[h2] = "InsufficientAvailableError"
        /\ stock[req[h1].pair].quantity = 3
        /\ stock[req[h1].pair].reserved_quantity = 2
        /\ last.op = "reserve" /\ last.outcome = "InsufficientAvailableError"

\* C16 (reserve/consume cycle): consume(n) that directly follows a successful
\* reserve(n) of the same pair leaves reserved_quantity at its value before
\* the reserve, quantity lower by n than before the reserve, and appends
\* exactly one sale movement of -n.
ReserveConsumeCycle ==
    [][\A p \in Pairs, n \in Amounts :
          (/\ consume(p, n)
           /\ last.op = "reserve" /\ last.outcome = "ok"
           /\ last.pair = p /\ last.amount = n)
          => /\ stock'[p].reserved_quantity = last.reserved_quantity
             /\ stock'[p].quantity = last.quantity - n
             /\ movements' = Append(movements, Movement(p, 0 - n, SALE))
             /\ last'.outcome = "ok"]_vars

\* scaled trace: append(+2, purchase), reserve(2), consume(2)
CycleCompleted ==
    /\ last.op = "consume" /\ last.outcome = "ok" /\ last.amount = 2
    /\ last.reserved_quantity = 2 /\ last.quantity = 2
    /\ stock[last.pair].quantity = 0
    /\ stock[last.pair].reserved_quantity = 0
    /\ movements = <<Movement(last.pair, 2, PURCHASE),
                     Movement(last.pair, 0 - 2, SALE)>>
    /\ \E h \in Handlers :
          /\ result[h] = "ok" /\ req[h].amount = 2 /\ req[h].pair = last.pair
          /\ \A h2 \in Handlers \ {h} : result[h2] = "none"

\* C17 (over-consumption): consume(amount) with amount above the current
\* reserved_quantity fails with OverConsumptionError and changes neither the
\* stock row nor the movement log; a successful consume lowers
\* reserved_quantity and quantity by the same amount and appends the sale.
ConsumeAllOrNothing ==
    [][\A p \in Pairs, n \in Amounts :
          consume(p, n) =>
             IF n > stock[p].reserved_quantity
             THEN /\ last'.outcome = "OverConsumptionError"
                  /\ UNCHANGED <<stock, movements>>
             ELSE /\ last'.outcome = "ok"
                  /\ stock'[p].reserved_quantity = stock[p].reserved_quantity - n
                  /\ stock'[p].quantity = stock[p].quantity - n
                  /\ movements' = Append(movements, Movement(p, 0 - n, SALE))]_vars

\* consume(1) succeeded, then consume(2) against reserved_quantity 1 failed
OverConsumptionRejected ==
    /\ last.op = "consume" /\ last.outcome = "OverConsumptionError"
    /\ last.amount = 2
    /\ last.reserved_quantity = 1
    /\ stock[last.pair].reserved_quantity = 1
    /\ stock[last.pair].quantity = last.quantity
    /\ Len(movements) = 2
    /\ movements[2] = Movement(last.pair, 0 - 1, SALE)

\* C18 (release clamps at zero): after release(amount) reserved_quantity is
\* max(0, previous reserved_quantity - amount); quantity and the movement log
\* are unchanged.
ReleaseClamped ==
    [][\A p \in Pairs, n \in Amounts :
          release(p, n) =>
             /\ stock'[p].reserved_quantity
                  = (IF stock[p].reserved_quantity > n
                     THEN stock[p].reserved_quantity - n ELSE 0)
             /\ stock'[p].quantity = stock[p].quantity
             /\ stock'[p].exists
             /\ movements' = movements]_vars

\* release(2) against reserved_quantity 1
ReleasedBelowZero ==
    /\ last.op = "release" /\ last.amount = 2
    /\ last.reserved_quantity = 1
    /\ stock[last.pair].reserved_quantity = 0
    /\ stock[last.pair].quantity = last.quantity
    /\ last.quantity >= 1

\* C19 (one stock record per pair): in every state at most one Stock row is
\* stored for a pair, whatever the interleaving of the get_or_create calls of
\* concurrent completions; a transaction that has inserted the row is the
\* only creator (no row of the pair is committed beside its own), and a
\* completion that did not insert works on the stored row.
OneRecordPerPair ==
    /\ \A p \in Pairs :
          /\ stock[p].rows <= 1
          /\ stock[p].exists <=> stock[p].rows = 1
    /\ \A h \in Handlers :
          pc[h] \in {"update", "create", "save"} =>
             (tx[h].created <=> ~stock[obj[h].pair].exists)
    /\ \A h1, h2 \in Handlers :
          (h1 # h2 /\ tx[h1].created /\ tx[h2].created)
          => obj[h1].pair # obj[h2].pair

\* two completions of a pair without a row: the first created the row and
\* committed, the second has passed get_or_create with the stored row
LoserUsesExistingRecord ==
    \E h1, h2 \in Handlers :
        /\ h1 # h2
        /\ obj[h1].pair = obj[h2].pair
        /\ obj[h1].id # obj[h2].id
        /\ result[h1] = "true"
        /\ imports = 0 /\ clock = 2
        /\ pc[h2] = "update" /\ ~tx[h2].created
        /\ stock[obj[h2].pair].rows = 1
        /\ local[h2].stock_quantity = stock[obj[h2].pair].quantity
        /\ local[h2].stock_quantity # 0

\* C20 (append-only movement log): no step deletes a stored movement or
\* changes its pair, quantity_changed, movement_type or related_audit: the
\* log before a step is a prefix of the log after it.
AppendOnly ==
    [][/\ Len(movements') >= Len(movements)
       /\ \A i \in 1 .. Len(movements) : movements'[i] = movements[i]]_vars

\* the adjustments of two audits of one pair are both stored
TwoMovementsKept ==
    /\ Len(movements) = 2
    /\ movements[1].pair = movements[2].pair
    /\ movements[1].related_audit # movements[2].related_audit
    /\ movements[1].quantity_changed # movements[2].quantity_changed
    /\ audits[movements[1].related_audit].is_completed
    /\ audits[movements[2].related_audit].is_completed

\* C21 (rejected complete): a complete call on an audit whose stored row is
\* already completed is rejected (returns False) and changes neither a stock
\* row, nor the movement log, nor the audit row.
RejectedCompleteFrame ==
    [][\A h \in Handlers :
          (Call(h) /\ audits[obj[h].id].is_completed) =>
             /\ result'[h] = "false"
             /\ pc'[h] = "ready"
             /\ UNCHANGED <<stock, movements, audits>>]_vars

\* C22 (independence across pairs): a step changes the stock row of at most
\* one pair and appends movements of that pair only; a committing completion
\* leaves the rows and the movements of every other pair as they were; the
\* quantity and the movement sum of a pair are determined by the operations
\* on that pair alone, whatever their order relative to the other pair's.
IndependentPairs ==
    /\ [](\A p \in Pairs :
            /\ StoredQuantity(p) = expected[p]
            /\ imports = 0 => SumChanged(movements, p) = expected[p])
    /\ [][/\ \A p, q \in Pairs :
              (p # q /\ stock'[p] # stock[p]) =>
                 /\ stock'[q] = stock[q]
                 /\ \A i \in Len(movements) + 1 .. Len(movements') :
                       movements'[i].pair = p
          /\ \A h \in Handlers :
                Save(h) =>
                   \A q \in Pairs \ {obj[h].pair} :
                      /\ stock'[q] = stock[q]
                      /\ SumChanged(movements', q) = SumChanged(movements, q)
                      /\ lock'[q] = lock[q]]_vars

\* both pairs adjusted by their own audits, each row created on the way
BothPairsAdjusted ==
    /\ result[1] = "true" /\ result[2] = "true"
    /\ obj[1].pair # obj[2].pair
    /\ imports = 0
    /\ Len(movements) = 2
    /\ movements[1].pair # movements[2].pair
    /\ \A p \in Pairs : stock[p].exists /\ stock[p].quantity # 0

\* C23 (lazy creation on completion): a completion that commits for a pair
\* without a stock row stores exactly one row for the pair, with
\* reserved_quantity 0 and quantity 0 + (quantity_recorded -
\* quantity_before_audit), and the movement it appends carries that quantity.
LazyCreation ==
    [][\A h \in Handlers :
          (Save(h) /\ ~stock[obj[h].pair].exists) =>
             LET p == obj[h].pair
                 d == StoredDiscrepancy(obj[h].id)
             IN
             /\ stock'[p] = [exists |-> TRUE, rows |-> 1, quantity |-> 0 + d,
                             reserved_quantity |-> 0]
             /\ SumChanged(movements', p) - SumChanged(movements, p)
                  = stock'[p].quantity
             /\ d # 0 => /\ Len(movements') = Len(movements) + 1
                          /\ movements'[Len(movements')].pair = p
                          /\ movements'[Len(movements')].quantity_changed = d]_vars

\* first commit of the run: audit (0, 1) on a pair without a row
RowCreatedByCompletion ==
    \E h \in Handlers :
        /\ result[h] = "true"
        /\ clock = 2 /\ imports = 0
        /\ audits[obj[h].id].quantity_before_audit = 0
        /\ audits[obj[h].id].quantity_recorded = 1
        /\ stock[obj[h].pair] = [exists |-> TRUE, rows |-> 1, quantity |-> 1,
                                 reserved_quantity |-> 0]
        /\ movements = <<AuditMovement(obj[h], 1)>>

\* C24 (count becomes the quantity): when a Pending audit commits whose
\* quantity_before_audit is the pair's stored quantity and no step changed
\* that quantity since the audit was stored, the stored quantity right after
\* the commit is quantity_recorded.
CountBecomesQuantity ==
    [][\A h \in Handlers :
          (/\ Save(h)
           /\ ~audits[obj[h].id].is_completed
           /\ ~interleaved[obj[h].id]
           /\ audits[obj[h].id].quantity_before_audit
                = StoredQuantity(obj[h].pair))
          => StoredQuantityAfter(obj[h].pair)
               = audits[obj[h].id].quantity_recorded]_vars

\* quantity 1 imported, audit opened with before = 1, count 0, completed
CountedDown ==
    \E h \in Handlers :
        /\ result[h] = "true"
        /\ imports = 1
        /\ ~interleaved[obj[h].id]
        /\ audits[obj[h].id].quantity_before_audit = 1
        /\ audits[obj[h].id].quantity_recorded = 0
        /\ Cardinality(MovementsOf(obj[h].id)) = 1
        /\ Len(movements) = 1
        /\ StoredQuantity(obj[h].pair) = 0

\* C25 (completed_at goes with is_completed): in every state the stored
\* completed_at of an audit is set exactly when its is_completed is true, and
\* no step changes a completed_at that is set.
CompletedAtSetOnce ==
    [][\A a \in AuditIds :
          /\ audits[a].is_completed <=> audits[a].completed_at # NoTime
          /\ audits'[a].is_completed <=> audits'[a].completed_at # NoTime
          /\ audits[a].completed_at # NoTime
                => audits'[a].completed_at = audits[a].completed_at]_vars

SingleMainImage ==
    \A p \in Products : Cardinality(MainImages(p)) <= 1

\* C28 (Stop always takes effect): whenever Stop is pressed while a search
\* worker is running, that worker eventually finishes, also when it is
\* paused at the moment Stop is pressed.
StopTakesEffect ==
    \A w \in Threads : threads[w].told ~> threads[w].pc = "done"

\* C29 (at most one search worker): at most one search worker is active at
\* any time, and while a worker that was told to stop is still running the
\* stop flag stays set.
OneSearchWorker ==
    /\ Cardinality(Running) <= 1
    /\ \A w \in Running : threads[w].told => is_stopped

\* C30 (cart merge conserves quantities): a login that finds an anonymous
\* cart for its session ends with the user's cart holding, for every
\* variant, its quantity plus the anonymous cart's quantity and the
\* anonymous cart gone when the user has a cart, and with the anonymous
\* cart turned into the user's cart, items unchanged, when the user has
\* none; no login changes the total quantity of a variant over all carts.
MergeConservesQuantities ==
    [][\A h \in Handlers :
         (mreq[h].at # "idle" /\ mreq'[h].at = "idle") =>
           LET a == mreq[h].anonymous_cart
               total(t, v) == t[1].items[v] + t[2].items[v] + t[3].items[v]
                                + t[4].items[v]
               anonymous == carts[a].exists /\ carts[a].user = NoUser
           IN
           /\ \A v \in Variants : total(carts', v) = total(carts, v)
           /\ (anonymous /\ UserCarts # {}) =>
                 /\ ~carts'[a].exists
                 /\ \E u \in UserCarts : \A v \in Variants :
                       carts'[u].items[v] = carts[u].items[v] + carts[a].items[v]
           /\ (anonymous /\ UserCarts = {}) =>
                 carts'[a] = [carts[a] EXCEPT !.user = TheUser,
                                              !.session_key = NoSession]]_vars

====
